---- MODULE Spec2Model ----
(***************************************************************************)
(* Model of src/script.js: the responsive drawing canvas.                  *)
(*                                                                         *)
(* The raster is observed at GridW x GridH sample points spread evenly     *)
(* over the backing store; every canvas call (clearRect, fillRect,         *)
(* drawImage, stroke) is computed from the logical rectangle it is given,  *)
(* the context transform and the backing-store size, so a call that does   *)
(* not cover the whole surface leaves the uncovered samples alone.         *)
(***************************************************************************)
EXTENDS Integers, Sequences, FiniteSets, Bags, TLC

(* ---- bounds of the model ---- *)
GridW == 2
GridH == 2
\* image loads in flight: from resizeCanvasAndRestore, from the background
\* control, from retrieve
MaxResizeLoads == 2
MaxColorLoads == 1
MaxRetrieveLoads == 1
MaxRun == 4

(* ---- program constants ---- *)
BASE_W == 800
BASE_H == 350
MinWidth == 240
DefaultLineWidth == 5
\* the waits of the two debounced listeners, in milliseconds
ResizeWait == 140
DprWait == 200

(* ---- inputs ---- *)
Transparent == "transparent"
StrokeColours == {"#000000", "#0000ff"}
BgColours == {"#ffffff", "#ff0000"}
Pixels == StrokeColours \cup BgColours \cup {Transparent}
\* offsetX, offsetY of the pointer events; the second point lies outside a
\* narrow canvas, where a captured pointer can still be
PointerPoints == {<<100, 50>>, <<700, 300>>}
PointerIds == {0, 1}
\* container.clientWidth and the sum of its horizontal paddings
ContainerBoxes == {<<264, 24>>, <<1000, 0>>}
Dprs == {1, 2}
\* more boxes and ratios, for the sizes resizeCanvasAndRestore computes: below
\* the minimum, at half-pixel heights (248 * 350 / 800 = 108.5), above the base
SizeBoxes == {<<200, 0>>, <<264, 24>>, <<248, 0>>, <<547, 24>>, <<800, 0>>, <<1000, 0>>}
SizeDprs == {1, 2, 3}
\* the container's box and the device pixel ratio when the script starts
StartEnvs == {<< <<1000, 0>>, 1 >>, << <<264, 24>>, 2 >>}
\* values of the line-width control, as character sequences
WidthInputs == {<<"1", "0">>, <<"0">>, <<"a", "b">>}
\* the amounts of time, in milliseconds, that pass between two handlers
TimeSteps == {60, 140}
NoSavedNotice == "No saved drawing found in localStorage."

VARIABLES
  isDrawing, lastX, lastY,                  \* script.js:16-18
  currentStroke, currentBg, currentLineWidth, \* script.js:25-27
  ctx,                                      \* 2d context state
  styleWidth, styleHeight,                  \* canvas.style.width / height (CSS px)
  canvasWidth, canvasHeight,                \* canvas.width / height (backing store)
  raster,                                   \* backing-store content at the sample points
  container, dpr,                           \* the container's box, window.devicePixelRatio
  mqResolution,                             \* the resolution the matchMedia query was built with
  resizeTimer, dprTimer,                    \* the time left on the timeouts each debounce closure has pending
  pending,                                  \* images whose onload has not run yet
  storage,                                  \* localStorage["canvasContents"]
  captured,                                 \* pointer ids captured by the canvas
  out,                                      \* what the last handler did: its stroke call, alert, download
  run,                                      \* the handlers run since the last anchoring event
  burst                                     \* the resize events since the last quiet period

vars == <<isDrawing, lastX, lastY, currentStroke, currentBg, currentLineWidth,
          ctx, styleWidth, styleHeight, canvasWidth, canvasHeight, raster,
          container, dpr, mqResolution, resizeTimer, dprTimer, pending, storage,
          captured, out, run, burst>>

(* ---- arithmetic ---- *)
Abs(n) == IF n < 0 THEN -n ELSE n
Max(a, b) == IF a > b THEN a ELSE b
Min(a, b) == IF a < b THEN a ELSE b
\* Math.round(num / den) for num >= 0, den > 0
Round(num, den) == (2 * num + den) \div (2 * den)

(* ---- the raster ---- *)
Cells == (0 .. GridW - 1) \X (0 .. GridH - 1)
Blank == [c \in Cells |-> Transparent]

\* does the logical rectangle (0,0,w,h), under a uniform scale s, cover the
\* centre of sample c of a cw x ch backing store?
Covers(c, w, h, s, cw, ch) ==
  /\ (2 * c[1] + 1) * cw < 2 * GridW * w * s
  /\ (2 * c[2] + 1) * ch < 2 * GridH * h * s

\* the sample of a stretched image that lands on sample c
SourceCell(c, w, h, s, cw, ch) ==
  << ((2 * c[1] + 1) * cw) \div (2 * w * s), ((2 * c[2] + 1) * ch) \div (2 * h * s) >>

clearRect(r, w, h, s, cw, ch) ==
  [c \in Cells |-> IF Covers(c, w, h, s, cw, ch) THEN Transparent ELSE r[c]]

fillRect(r, colour, w, h, s, cw, ch) ==
  [c \in Cells |-> IF Covers(c, w, h, s, cw, ch) THEN colour ELSE r[c]]

\* drawImage(img, 0, 0, w, h): source-over compositing of the stretched image
drawImage(r, img, w, h, s, cw, ch) ==
  [c \in Cells |->
     IF Covers(c, w, h, s, cw, ch) /\ SourceCell(c, w, h, s, cw, ch) \in Cells
     THEN LET p == img.px[SourceCell(c, w, h, s, cw, ch)]
          IN IF p = Transparent THEN r[c] ELSE p
     ELSE r[c]]

\* canvas.toDataURL(): the backing store, losslessly encoded
toDataURL(r, cw, ch) == [w |-> cw, h |-> ch, px |-> r]

\* the sample column / row a logical coordinate falls in
CellX(x, s, cw) == (x * s * GridW) \div cw
CellY(y, s, ch) == (y * s * GridH) \div ch

\* is sample c on the segment between samples a and b?
OnSegment(c, a, b) ==
  LET dx == b[1] - a[1]
      dy == b[2] - a[2]
  IN /\ Min(a[1], b[1]) <= c[1] /\ c[1] <= Max(a[1], b[1])
     /\ Min(a[2], b[2]) <= c[2] /\ c[2] <= Max(a[2], b[2])
     /\ 2 * Abs(dx * (c[2] - a[2]) - dy * (c[1] - a[1])) <= Max(Abs(dx), Abs(dy))

\* beginPath(); moveTo(x0, y0); lineTo(x1, y1); stroke()
stroke(r, x0, y0, x1, y1, colour, s, cw, ch) ==
  LET a == << CellX(x0, s, cw), CellY(y0, s, ch) >>
      b == << CellX(x1, s, cw), CellY(y1, s, ch) >>
  IN [c \in Cells |-> IF OnSegment(c, a, b) THEN colour ELSE r[c]]

(* ---- the handlers' outputs ---- *)
\* handler: the listener that ran (or "tick": time passed); at: the pointer
\* position it was given; value: the e.target.value it was given (the time
\* that passed); seg: the segment it stroked;
\* alert: the notice it raised; link: the download it triggered; decode: the
\* image load it started or completed; fill: the fill style its fillRect call
\* used; threw: the call in it that threw; error: the exception it let escape
Out(handler) ==
  [handler |-> handler, at |-> <<>>, value |-> {}, seg |-> {}, alert |-> {},
   link |-> {}, decode |-> {}, fill |-> {}, threw |-> {}, error |-> {}]

\* no record: base is the raster before the anchoring event, geom the sizes
\* and transform before it, events the outputs of the handlers run since
NoRun == [base |-> Blank, geom |-> <<>>, events |-> <<>>]
\* no resize event yet: events is the number of resize events of the burst
\* (0, 1, or 2 for more than one), elapsed the time since the last of them (not
\* counted beyond the wait), runs the number of times the listener's timeout
\* has run resizeCanvasAndRestore since the burst began (not counted beyond two)
NoBurst == [events |-> 0, elapsed |-> 0, runs |-> 0]

(* ---- Number(e.target.value) ---- *)
Digits == <<"0", "1", "2", "3", "4", "5", "6", "7", "8", "9">>
IsDigit(ch) == \E i \in 1 .. 10 : Digits[i] = ch
DigitValue(ch) == (CHOOSE i \in 1 .. 10 : Digits[i] = ch) - 1
RECURSIVE Decimal(_)
Decimal(str) ==
  IF str = <<>> THEN 0
  ELSE 10 * Decimal(SubSeq(str, 1, Len(str) - 1)) + DigitValue(str[Len(str)])
\* Number(str): the empty string is 0, a digit string its value, anything else NaN
Number(str) ==
  IF \A i \in 1 .. Len(str) : IsDigit(str[i])
  THEN [nan |-> FALSE, val |-> Decimal(str)]
  ELSE [nan |-> TRUE, val |-> 0]

(* ---- resizeCanvasAndRestore ---- *)
\* (mutant) the available width without its minimum
DisplayWidthUnclamped(box) == Min(BASE_W, box[1] - box[2])

DisplayWidth(box) == Min(BASE_W, Max(MinWidth, box[1] - box[2]))
DisplayHeight(w) == Round(w * BASE_H, BASE_W)
\* (mutant) the context as the assignment of canvas.width leaves it: only the
\* transform is set again, the styles are the context's initial ones
ResetContext(strokeColour, bgColour, lineWidth, ratio) ==
  [strokeStyle |-> "#000000", fillStyle |-> "#000000", lineWidth |-> 1,
   lineJoin |-> "miter", lineCap |-> "butt", scale |-> ratio]

\* the context after canvas.width/height were assigned (which resets it) and
\* the transform and styles were reapplied
ReappliedContext(strokeColour, bgColour, lineWidth, ratio) ==
  [strokeStyle |-> strokeColour, fillStyle |-> bgColour, lineWidth |-> lineWidth,
   lineJoin |-> "round", lineCap |-> "round", scale |-> ratio]
\* a data URL is never the empty string
Truthy(dataURL) == dataURL.w >= 0

Decode(kind, img, w, h) == [kind |-> kind, img |-> img, w |-> w, h |-> h]

\* (mutant) the snapshot is taken after the backing store was resized
resizeSnapshotLate ==
  LET snapshot == toDataURL(Blank, canvasWidth, canvasHeight)
      displayWidth == DisplayWidth(container)
      displayHeight == DisplayHeight(displayWidth)
  IN /\ styleWidth' = displayWidth
     /\ styleHeight' = displayHeight
     /\ canvasWidth' = Round(displayWidth * dpr, 1)
     /\ canvasHeight' = Round(displayHeight * dpr, 1)
     /\ ctx' = ReappliedContext(currentStroke, currentBg, currentLineWidth, dpr)
     /\ raster' = Blank
     /\ pending' = pending (+) SetToBag({Decode("resize", snapshot, displayWidth, displayHeight)})
     /\ out' = [Out("resizeCanvasAndRestore") EXCEPT
                  !.decode = {Decode("resize", snapshot, displayWidth, displayHeight)}]

resizeCanvasAndRestore ==
  LET snapshot == toDataURL(raster, canvasWidth, canvasHeight)
      displayWidth == DisplayWidth(container)
      displayHeight == DisplayHeight(displayWidth)
  IN /\ styleWidth' = displayWidth
     /\ styleHeight' = displayHeight
     /\ canvasWidth' = Round(displayWidth * dpr, 1)
     /\ canvasHeight' = Round(displayHeight * dpr, 1)
     /\ ctx' = ReappliedContext(currentStroke, currentBg, currentLineWidth, dpr)
     /\ IF Truthy(snapshot)
        THEN /\ raster' = Blank
             /\ pending' = pending (+) SetToBag({Decode("resize", snapshot, displayWidth, displayHeight)})
             /\ out' = [Out("resizeCanvasAndRestore") EXCEPT
                          !.decode = {Decode("resize", snapshot, displayWidth, displayHeight)}]
        ELSE /\ raster' = fillRect(Blank, currentBg, displayWidth, displayHeight,
                                   dpr, canvasWidth', canvasHeight')
             /\ pending' = pending
             /\ out' = [Out("resizeCanvasAndRestore") EXCEPT !.fill = {currentBg}]

\* the snapshot the startup call takes: the canvas element still has its
\* default 300 x 150 backing store, with nothing on it
StartupSnapshot == toDataURL(Blank, 300, 150)

Init ==
  /\ isDrawing = FALSE /\ lastX = 0 /\ lastY = 0
  /\ currentStroke = "#000000" /\ currentBg = "#ffffff"
  /\ currentLineWidth = DefaultLineWidth
  /\ \E env \in StartEnvs : container = env[1] /\ dpr = env[2]
  /\ mqResolution = dpr
  /\ styleWidth = DisplayWidth(container)
  /\ styleHeight = DisplayHeight(styleWidth)
  /\ canvasWidth = Round(styleWidth * dpr, 1)
  /\ canvasHeight = Round(styleHeight * dpr, 1)
  /\ ctx = ReappliedContext(currentStroke, currentBg, currentLineWidth, dpr)
  /\ raster = Blank
  /\ pending = SetToBag({Decode("resize", StartupSnapshot, styleWidth, styleHeight)})
  /\ resizeTimer = <<>> /\ dprTimer = <<>>
  /\ storage = {}
  /\ captured = {}
  /\ out = Out("start")
  /\ run = NoRun
  /\ burst = NoBurst

(* ---- window events and the debounced timers (script.js:94, 209) ---- *)
\* the image loads in flight are capped, kind by kind
Loads(kind) ==
  LET ofKind == {d \in BagToSet(pending) : d.kind = kind}
      RECURSIVE Sum(_)
      Sum(ds) == IF ds = {} THEN 0
                 ELSE LET d == CHOOSE x \in ds : TRUE
                      IN CopiesIn(d, pending) + Sum(ds \ {d})
  IN Sum(ofKind)
CanStartDecode(kind) ==
  Loads(kind) < (CASE kind = "resize" -> MaxResizeLoads
                   [] kind = "canvasColor" -> MaxColorLoads
                   [] kind = "retrieve" -> MaxRetrieveLoads)

\* clearTimeout(t): t is the timeout the closure set last; among the timeouts
\* of one closure, which all have the same wait, it is the last to expire
clearTimeout(timers) ==
  IF timers = <<>> THEN timers ELSE SubSeq(timers, 1, Len(timers) - 1)

\* (mutant) the wrapper sets a new timeout without clearing the last one
debounceNoClear(timers, wait) == Append(timers, wait)

\* the wrapper debounce returns: clearTimeout(t); t = setTimeout(..., wait)
debounce(timers, wait) == Append(clearTimeout(timers), wait)

\* a timeout of the closure has expired and its callback has not run yet
Due(timers) == timers # <<>> /\ Head(timers) = 0

\* dt milliseconds pass with no handler running
Tick(dt) ==
  /\ resizeTimer' = [i \in DOMAIN resizeTimer |-> Max(0, resizeTimer[i] - dt)]
  /\ dprTimer' = [i \in DOMAIN dprTimer |-> Max(0, dprTimer[i] - dt)]
  /\ out' = [Out("tick") EXCEPT !.value = {dt}]
  /\ UNCHANGED <<isDrawing, lastX, lastY, currentStroke, currentBg, currentLineWidth,
                 ctx, styleWidth, styleHeight, canvasWidth, canvasHeight, raster,
                 container, dpr, mqResolution, pending, storage, captured>>

\* "resize" on window: the debounced wrapper clears its timer and sets it again
WindowResize(box) ==
  /\ container' = box
  /\ resizeTimer' = debounce(resizeTimer, ResizeWait)
  /\ out' = Out("resize")
  /\ UNCHANGED <<isDrawing, lastX, lastY, currentStroke, currentBg, currentLineWidth,
                 ctx, styleWidth, styleHeight, canvasWidth, canvasHeight, raster,
                 dpr, mqResolution, dprTimer, pending, storage, captured>>

\* the resize timer expires: resizeCanvasAndRestore()
ResizeTimerFire ==
  /\ Due(resizeTimer)
  /\ CanStartDecode("resize")
  /\ resizeTimer' = Tail(resizeTimer)
  /\ resizeCanvasAndRestore
  /\ UNCHANGED <<isDrawing, lastX, lastY, currentStroke, currentBg, currentLineWidth,
                 container, dpr, mqResolution, dprTimer, storage, captured>>

\* the device pixel ratio changes; the media query's "change" fires when the
\* ratio starts or stops matching the resolution the query was built with
DprChange(ratio) ==
  /\ ratio # dpr
  /\ dpr' = ratio
  /\ dprTimer' = IF (dpr = mqResolution) # (ratio = mqResolution)
                 THEN debounce(dprTimer, DprWait) ELSE dprTimer
  /\ out' = Out("dprchange")
  /\ UNCHANGED <<isDrawing, lastX, lastY, currentStroke, currentBg, currentLineWidth,
                 ctx, styleWidth, styleHeight, canvasWidth, canvasHeight, raster,
                 container, mqResolution, resizeTimer, pending, storage, captured>>

DprTimerFire ==
  /\ Due(dprTimer)
  /\ CanStartDecode("resize")
  /\ dprTimer' = Tail(dprTimer)
  /\ resizeCanvasAndRestore
  /\ UNCHANGED <<isDrawing, lastX, lastY, currentStroke, currentBg, currentLineWidth,
                 container, dpr, mqResolution, resizeTimer, storage, captured>>

\* img.onload of resizeCanvasAndRestore (script.js:76-80)
ResizeOnload(d) ==
  /\ BagIn(d, pending) /\ d.kind = "resize"
  /\ pending' = pending (-) SetToBag({d})
  /\ raster' = drawImage(clearRect(raster, d.w, d.h, ctx.scale, canvasWidth, canvasHeight),
                         d.img, d.w, d.h, ctx.scale, canvasWidth, canvasHeight)
  /\ out' = [Out("resizeOnload") EXCEPT !.decode = {d}]
  /\ UNCHANGED <<isDrawing, lastX, lastY, currentStroke, currentBg, currentLineWidth,
                 ctx, styleWidth, styleHeight, canvasWidth, canvasHeight,
                 container, dpr, mqResolution, resizeTimer, dprTimer, storage, captured>>

(* ---- pointer drawing (script.js:97-125) ---- *)
\* (mutant) the pointer-down paints a dot at its position
PointerDownDot(id, x, y, captureThrows) ==
  /\ isDrawing' = TRUE
  /\ captured' = IF captureThrows THEN captured ELSE captured \cup {id}
  /\ lastX' = x
  /\ lastY' = y
  /\ raster' = stroke(raster, x, y, x, y, ctx.strokeStyle, ctx.scale, canvasWidth, canvasHeight)
  /\ out' = [Out("pointerdown") EXCEPT
               !.at = <<x, y>>,
               !.threw = IF captureThrows THEN {"setPointerCapture"} ELSE {}]
  /\ UNCHANGED <<currentStroke, currentBg, currentLineWidth,
                 ctx, styleWidth, styleHeight, canvasWidth, canvasHeight,
                 container, dpr, mqResolution, resizeTimer, dprTimer, pending, storage>>

\* (mutant) setPointerCapture is called outside a try block: when it throws,
\* the rest of the handler is skipped and the exception escapes
PointerDownUncaught(id, x, y, captureThrows) ==
  /\ isDrawing' = TRUE
  /\ captured' = IF captureThrows THEN captured ELSE captured \cup {id}
  /\ lastX' = IF captureThrows THEN lastX ELSE x
  /\ lastY' = IF captureThrows THEN lastY ELSE y
  /\ out' = [Out("pointerdown") EXCEPT
               !.at = <<x, y>>,
               !.threw = IF captureThrows THEN {"setPointerCapture"} ELSE {},
               !.error = IF captureThrows THEN {"setPointerCapture"} ELSE {}]
  /\ UNCHANGED <<currentStroke, currentBg, currentLineWidth,
                 ctx, styleWidth, styleHeight, canvasWidth, canvasHeight, raster,
                 container, dpr, mqResolution, resizeTimer, dprTimer, pending, storage>>

\* setPointerCapture may throw; the handler ignores it
PointerDown(id, x, y, captureThrows) ==
  /\ isDrawing' = TRUE
  /\ captured' = IF captureThrows THEN captured ELSE captured \cup {id}
  /\ lastX' = x
  /\ lastY' = y
  /\ out' = [Out("pointerdown") EXCEPT
               !.at = <<x, y>>,
               !.threw = IF captureThrows THEN {"setPointerCapture"} ELSE {}]
  /\ UNCHANGED <<currentStroke, currentBg, currentLineWidth,
                 ctx, styleWidth, styleHeight, canvasWidth, canvasHeight, raster,
                 container, dpr, mqResolution, resizeTimer, dprTimer, pending, storage>>

Segment(x0, y0, x1, y1, context) ==
  [x0 |-> x0, y0 |-> y0, x1 |-> x1, y1 |-> y1,
   strokeStyle |-> context.strokeStyle, lineWidth |-> context.lineWidth]

\* (mutant) the move handler without its isDrawing test
PointerMoveUnguarded(x, y) ==
  /\ raster' = stroke(raster, lastX, lastY, x, y, ctx.strokeStyle,
                      ctx.scale, canvasWidth, canvasHeight)
  /\ lastX' = x
  /\ lastY' = y
  /\ out' = [Out("pointermove") EXCEPT
               !.at = <<x, y>>, !.seg = {Segment(lastX, lastY, x, y, ctx)}]
  /\ UNCHANGED <<isDrawing, currentStroke, currentBg, currentLineWidth,
                 ctx, styleWidth, styleHeight, canvasWidth, canvasHeight,
                 container, dpr, mqResolution, resizeTimer, dprTimer, pending, storage,
                 captured>>

PointerMove(x, y) ==
  /\ IF ~isDrawing
     THEN /\ out' = [Out("pointermove") EXCEPT !.at = <<x, y>>]
          /\ UNCHANGED <<raster, lastX, lastY>>
     ELSE /\ raster' = stroke(raster, lastX, lastY, x, y, ctx.strokeStyle,
                              ctx.scale, canvasWidth, canvasHeight)
          /\ lastX' = x
          /\ lastY' = y
          /\ out' = [Out("pointermove") EXCEPT
                       !.at = <<x, y>>, !.seg = {Segment(lastX, lastY, x, y, ctx)}]
  /\ UNCHANGED <<isDrawing, currentStroke, currentBg, currentLineWidth,
                 ctx, styleWidth, styleHeight, canvasWidth, canvasHeight,
                 container, dpr, mqResolution, resizeTimer, dprTimer, pending, storage,
                 captured>>

\* the capture the program gives up in stopDrawing: a pointer id of 0 is falsy
Released(id, releaseThrows) ==
  IF isDrawing /\ id # 0 /\ ~releaseThrows THEN {id} ELSE {}

\* stopDrawing(e) for pointerup, pointercancel and pointerout; after pointerup
\* and pointercancel the browser itself releases the capture of that pointer;
\* releasePointerCapture throws only for a pointer that is no longer active,
\* and such a pointer holds no capture
stopDrawing(type, id, releaseThrows) ==
  /\ captured' = (captured \ Released(id, releaseThrows))
                   \ (IF type \in {"pointerup", "pointercancel"} \/ releaseThrows
                      THEN {id} ELSE {})
  /\ isDrawing' = FALSE
  /\ out' = [Out(type) EXCEPT
               !.threw = IF isDrawing /\ id # 0 /\ releaseThrows
                         THEN {"releasePointerCapture"} ELSE {}]
  /\ UNCHANGED <<lastX, lastY, currentStroke, currentBg, currentLineWidth,
                 ctx, styleWidth, styleHeight, canvasWidth, canvasHeight, raster,
                 container, dpr, mqResolution, resizeTimer, dprTimer, pending, storage>>

(* ---- controls (script.js:129-206) ---- *)
ColorPickerChange(value) ==
  /\ currentStroke' = value
  /\ ctx' = [ctx EXCEPT !.strokeStyle = value, !.fillStyle = value]
  /\ out' = [Out("colorPicker") EXCEPT !.value = {value}]
  /\ UNCHANGED <<isDrawing, lastX, lastY, currentBg, currentLineWidth,
                 styleWidth, styleHeight, canvasWidth, canvasHeight, raster,
                 container, dpr, mqResolution, resizeTimer, dprTimer, pending, storage,
                 captured>>

CanvasColorChange(value) ==
  /\ CanStartDecode("canvasColor")
  /\ currentBg' = value
  /\ pending' = pending (+) SetToBag({Decode("canvasColor",
                    toDataURL(raster, canvasWidth, canvasHeight), styleWidth, styleHeight)})
  /\ out' = [Out("canvasColor") EXCEPT
               !.value = {value},
               !.decode = {Decode("canvasColor", toDataURL(raster, canvasWidth, canvasHeight),
                                  styleWidth, styleHeight)}]
  /\ UNCHANGED <<isDrawing, lastX, lastY, currentStroke, currentLineWidth,
                 ctx, styleWidth, styleHeight, canvasWidth, canvasHeight, raster,
                 container, dpr, mqResolution, resizeTimer, dprTimer, storage, captured>>

\* (mutant) the onload fills without setting the fill style first
CanvasColorOnloadContextFill(d) ==
  /\ BagIn(d, pending) /\ d.kind = "canvasColor"
  /\ pending' = pending (-) SetToBag({d})
  /\ raster' = drawImage(
                 fillRect(clearRect(raster, d.w, d.h, ctx.scale, canvasWidth, canvasHeight),
                          ctx.fillStyle, d.w, d.h, ctx.scale, canvasWidth, canvasHeight),
                 d.img, d.w, d.h, ctx.scale, canvasWidth, canvasHeight)
  /\ out' = [Out("canvasColorOnload") EXCEPT !.decode = {d}, !.fill = {ctx.fillStyle}]
  /\ UNCHANGED <<isDrawing, lastX, lastY, currentStroke, currentBg, currentLineWidth,
                 ctx, styleWidth, styleHeight, canvasWidth, canvasHeight,
                 container, dpr, mqResolution, resizeTimer, dprTimer, storage, captured>>

\* img.onload of the background change; ctx.save() / ctx.restore() put the
\* fill style back
CanvasColorOnload(d) ==
  /\ BagIn(d, pending) /\ d.kind = "canvasColor"
  /\ pending' = pending (-) SetToBag({d})
  /\ raster' = drawImage(
                 fillRect(clearRect(raster, d.w, d.h, ctx.scale, canvasWidth, canvasHeight),
                          currentBg, d.w, d.h, ctx.scale, canvasWidth, canvasHeight),
                 d.img, d.w, d.h, ctx.scale, canvasWidth, canvasHeight)
  /\ out' = [Out("canvasColorOnload") EXCEPT !.decode = {d}, !.fill = {currentBg}]
  /\ UNCHANGED <<isDrawing, lastX, lastY, currentStroke, currentBg, currentLineWidth,
                 ctx, styleWidth, styleHeight, canvasWidth, canvasHeight,
                 container, dpr, mqResolution, resizeTimer, dprTimer, storage, captured>>

\* (mutant) the width is stored but not applied to the context
FontSizeChangeStateOnly(value) ==
  LET n == Number(value)
      v == IF n.nan \/ n.val = 0 THEN DefaultLineWidth ELSE n.val
  IN /\ currentLineWidth' = v
     /\ out' = [Out("fontSize") EXCEPT !.value = {value}]
     /\ UNCHANGED <<isDrawing, lastX, lastY, currentStroke, currentBg, ctx,
                    styleWidth, styleHeight, canvasWidth, canvasHeight, raster,
                    container, dpr, mqResolution, resizeTimer, dprTimer, pending, storage,
                    captured>>

\* (mutant) an unusable input keeps the width in use instead of the default
FontSizeChangeKeepsWidth(value) ==
  LET n == Number(value)
      v == IF n.nan \/ n.val = 0 THEN currentLineWidth ELSE n.val
  IN /\ currentLineWidth' = v
     /\ ctx' = IF v > 0 THEN [ctx EXCEPT !.lineWidth = v] ELSE ctx
     /\ out' = [Out("fontSize") EXCEPT !.value = {value}]
     /\ UNCHANGED <<isDrawing, lastX, lastY, currentStroke, currentBg,
                    styleWidth, styleHeight, canvasWidth, canvasHeight, raster,
                    container, dpr, mqResolution, resizeTimer, dprTimer, pending, storage,
                    captured>>

\* Number(value) || 5; the context ignores a line width that is not positive
FontSizeChange(value) ==
  LET n == Number(value)
      v == IF n.nan \/ n.val = 0 THEN DefaultLineWidth ELSE n.val
  IN /\ currentLineWidth' = v
     /\ ctx' = IF v > 0 THEN [ctx EXCEPT !.lineWidth = v] ELSE ctx
     /\ out' = [Out("fontSize") EXCEPT !.value = {value}]
     /\ UNCHANGED <<isDrawing, lastX, lastY, currentStroke, currentBg,
                    styleWidth, styleHeight, canvasWidth, canvasHeight, raster,
                    container, dpr, mqResolution, resizeTimer, dprTimer, pending, storage,
                    captured>>

\* (mutant) clear fills with whatever fill style the context holds
ClearWithContextFill ==
  /\ raster' = fillRect(clearRect(raster, styleWidth, styleHeight, ctx.scale,
                                  canvasWidth, canvasHeight),
                        ctx.fillStyle, styleWidth, styleHeight, ctx.scale,
                        canvasWidth, canvasHeight)
  /\ out' = [Out("clearButton") EXCEPT !.fill = {ctx.fillStyle}]
  /\ UNCHANGED <<isDrawing, lastX, lastY, currentStroke, currentBg, currentLineWidth,
                 ctx, styleWidth, styleHeight, canvasWidth, canvasHeight,
                 container, dpr, mqResolution, resizeTimer, dprTimer, pending, storage,
                 captured>>

ClearButtonClick ==
  /\ raster' = fillRect(clearRect(raster, styleWidth, styleHeight, ctx.scale,
                                  canvasWidth, canvasHeight),
                        currentBg, styleWidth, styleHeight, ctx.scale,
                        canvasWidth, canvasHeight)
  /\ ctx' = [ctx EXCEPT !.fillStyle = currentBg]
  /\ out' = [Out("clearButton") EXCEPT !.fill = {currentBg}]
  /\ UNCHANGED <<isDrawing, lastX, lastY, currentStroke, currentBg, currentLineWidth,
                 styleWidth, styleHeight, canvasWidth, canvasHeight,
                 container, dpr, mqResolution, resizeTimer, dprTimer, pending, storage,
                 captured>>

\* (mutant) save stores only when nothing is stored yet
SaveKeepsFirst ==
  LET dataURL == toDataURL(raster, canvasWidth, canvasHeight)
  IN /\ storage' = IF storage = {} THEN {dataURL} ELSE storage
     /\ out' = [Out("saveButton") EXCEPT
                  !.link = {[download |-> "my-canvas.png", href |-> dataURL]}]
     /\ UNCHANGED <<isDrawing, lastX, lastY, currentStroke, currentBg, currentLineWidth,
                    ctx, styleWidth, styleHeight, canvasWidth, canvasHeight, raster,
                    container, dpr, mqResolution, resizeTimer, dprTimer, pending,
                    captured>>

SaveButtonClick ==
  LET dataURL == toDataURL(raster, canvasWidth, canvasHeight)
  IN /\ storage' = {dataURL}
     /\ out' = [Out("saveButton") EXCEPT
                  !.link = {[download |-> "my-canvas.png", href |-> dataURL]}]
     /\ UNCHANGED <<isDrawing, lastX, lastY, currentStroke, currentBg, currentLineWidth,
                    ctx, styleWidth, styleHeight, canvasWidth, canvasHeight, raster,
                    container, dpr, mqResolution, resizeTimer, dprTimer, pending,
                    captured>>

\* (mutant) retrieve returns silently when nothing is stored
RetrieveSilent ==
  /\ IF storage = {}
     THEN /\ out' = Out("retrieveButton")
          /\ pending' = pending
     ELSE /\ CanStartDecode("retrieve")
          /\ pending' = pending (+) SetToBag({Decode("retrieve",
                            CHOOSE saved \in storage : TRUE, 0, 0)})
          /\ out' = [Out("retrieveButton") EXCEPT
                       !.decode = {Decode("retrieve", CHOOSE saved \in storage : TRUE, 0, 0)}]
  /\ UNCHANGED <<isDrawing, lastX, lastY, currentStroke, currentBg, currentLineWidth,
                 ctx, styleWidth, styleHeight, canvasWidth, canvasHeight, raster,
                 container, dpr, mqResolution, resizeTimer, dprTimer, storage, captured>>

RetrieveButtonClick ==
  /\ IF storage = {}
     THEN /\ out' = [Out("retrieveButton") EXCEPT !.alert = {NoSavedNotice}]
          /\ pending' = pending
     ELSE /\ CanStartDecode("retrieve")
          /\ pending' = pending (+) SetToBag({Decode("retrieve",
                            CHOOSE saved \in storage : TRUE, 0, 0)})
          /\ out' = [Out("retrieveButton") EXCEPT
                       !.decode = {Decode("retrieve", CHOOSE saved \in storage : TRUE, 0, 0)}]
  /\ UNCHANGED <<isDrawing, lastX, lastY, currentStroke, currentBg, currentLineWidth,
                 ctx, styleWidth, styleHeight, canvasWidth, canvasHeight, raster,
                 container, dpr, mqResolution, resizeTimer, dprTimer, storage, captured>>

\* (mutant) the retrieved image is drawn over a background fill
RetrieveOnloadFilled(d) ==
  /\ BagIn(d, pending) /\ d.kind = "retrieve"
  /\ pending' = pending (-) SetToBag({d})
  /\ raster' = drawImage(fillRect(raster, currentBg, styleWidth, styleHeight, ctx.scale,
                                  canvasWidth, canvasHeight),
                         d.img, styleWidth, styleHeight, ctx.scale,
                         canvasWidth, canvasHeight)
  /\ out' = [Out("retrieveOnload") EXCEPT !.decode = {d}]
  /\ UNCHANGED <<isDrawing, lastX, lastY, currentStroke, currentBg, currentLineWidth,
                 ctx, styleWidth, styleHeight, canvasWidth, canvasHeight,
                 container, dpr, mqResolution, resizeTimer, dprTimer, storage, captured>>

\* img.onload of retrieve: the display size is read when the image has loaded
RetrieveOnload(d) ==
  /\ BagIn(d, pending) /\ d.kind = "retrieve"
  /\ pending' = pending (-) SetToBag({d})
  /\ raster' = drawImage(clearRect(raster, styleWidth, styleHeight, ctx.scale,
                                   canvasWidth, canvasHeight),
                         d.img, styleWidth, styleHeight, ctx.scale,
                         canvasWidth, canvasHeight)
  /\ out' = [Out("retrieveOnload") EXCEPT !.decode = {d}]
  /\ UNCHANGED <<isDrawing, lastX, lastY, currentStroke, currentBg, currentLineWidth,
                 ctx, styleWidth, styleHeight, canvasWidth, canvasHeight,
                 container, dpr, mqResolution, resizeTimer, dprTimer, storage, captured>>

PendingDecodes == BagToSet(pending)

(* ---- the record of the handlers run since an anchoring event ---- *)
Geom == <<styleWidth, styleHeight, canvasWidth, canvasHeight, ctx.scale>>
OnlyResizes(events) ==
  /\ events # <<>>
  /\ \A i \in 1 .. Len(events) : events[i].handler = "resizeCanvasAndRestore"
\* a pointer-down, a background change, a save and the first of a series of
\* resizeCanvasAndRestore calls start a new record
IsAnchor(e) ==
  \/ e.handler \in {"pointerdown", "canvasColor", "saveButton"}
  \/ e.handler = "resizeCanvasAndRestore" /\ ~OnlyResizes(run.events)
StopTypes == {"pointerup", "pointercancel", "pointerout"}
\* the handlers a record follows: a pointer-down to the end of the press, a
\* background change to its onload, resizes to their onloads, a save to a
\* retrieve and its onload
Follows(e, events) ==
  LET first == events[1].handler
      prev == events[Len(events)].handler
  IN \/ first = "pointerdown" /\ prev = "pointerdown" /\ e.handler \in StopTypes
     \/ first = "canvasColor" /\ prev = "canvasColor" /\ e.handler = "canvasColorOnload"
     \/ first = "resizeCanvasAndRestore"
          /\ e.handler \in {"resizeCanvasAndRestore", "resizeOnload"}
     \/ first = "saveButton" /\ prev = "saveButton" /\ e.handler = "retrieveButton"
     \/ first = "saveButton" /\ prev = "retrieveButton" /\ e.handler = "retrieveOnload"
\* resizeCanvasAndRestore was run by the timeout of the resize listener
ResizeTimerRan ==
  out'.handler = "resizeCanvasAndRestore" /\ Len(resizeTimer') < Len(resizeTimer)
\* a resize event after a gap shorter than the wait continues the burst
ObserveBurst ==
  burst' = IF out'.handler = "resize"
           THEN IF burst.events > 0 /\ burst.elapsed < ResizeWait
                THEN [burst EXCEPT !.events = 2, !.elapsed = 0]
                ELSE [events |-> 1, elapsed |-> 0, runs |-> 0]
           ELSE IF out'.handler = "tick" /\ burst.events > 0
           THEN LET dt == CHOOSE t \in out'.value : TRUE
                IN [burst EXCEPT !.elapsed = Min(ResizeWait, @ + dt)]
           ELSE IF ResizeTimerRan
           THEN [burst EXCEPT !.runs = Min(2, @ + 1)]
           ELSE burst
\* a window resize or a ratio change only arms a timer, and time only passes:
\* they end no record
ObserveRun ==
  run' = IF out'.handler \in {"resize", "dprchange", "tick"} THEN run
         ELSE IF IsAnchor(out')
         THEN [base |-> raster, geom |-> Geom, events |-> <<out'>>]
         ELSE IF run.events # <<>> /\ Len(run.events) < MaxRun /\ Follows(out', run.events)
              THEN [run EXCEPT !.events = Append(@, out')]
              ELSE NoRun
\* the record of the handlers alone
Observe == ObserveRun /\ UNCHANGED burst
\* the record of the handlers and of the bursts of resize events
ObserveTimed == ObserveRun /\ ObserveBurst

(* ---- the events ---- *)
PointerEvent ==
  \/ \E id \in PointerIds, p \in PointerPoints, t \in BOOLEAN :
       PointerDown(id, p[1], p[2], t)
  \/ \E p \in PointerPoints : PointerMove(p[1], p[2])
  \/ \E type \in StopTypes, id \in PointerIds, t \in BOOLEAN : stopDrawing(type, id, t)

\* one pointer whose capture never fails
PenEvent ==
  \/ \E p \in PointerPoints : PointerDown(1, p[1], p[2], FALSE)
  \/ \E p \in PointerPoints : PointerMove(p[1], p[2])
  \/ stopDrawing("pointerup", 1, FALSE)

\* one pointer that presses, moves and lifts at one spot
TapEvent ==
  \/ PointerDown(1, 100, 50, FALSE)
  \/ PointerMove(100, 50)
  \/ stopDrawing("pointerup", 1, FALSE)

\* the resize events, the wait of their timeout, its callback and the onload
\* of the image the callback starts
ResizeEvent ==
  \/ \E box \in ContainerBoxes : WindowResize(box)
  \/ (resizeTimer # <<>> /\ ~Due(resizeTimer) /\ Tick(ResizeWait))
  \/ ResizeTimerFire
  \/ \E d \in PendingDecodes : ResizeOnload(d)

DprEvent ==
  \/ \E ratio \in Dprs : DprChange(ratio)
  \/ (dprTimer # <<>> /\ ~Due(dprTimer) /\ Tick(DprWait))
  \/ DprTimerFire

Next ==
  /\ \/ PointerEvent
     \/ ResizeEvent
     \/ DprEvent
     \/ \E value \in StrokeColours : ColorPickerChange(value)
     \/ \E value \in BgColours : CanvasColorChange(value)
     \/ \E d \in PendingDecodes : CanvasColorOnload(d)
     \/ \E value \in WidthInputs : FontSizeChange(value)
     \/ ClearButtonClick
     \/ SaveButtonClick
     \/ RetrieveButtonClick
     \/ \E d \in PendingDecodes : RetrieveOnload(d)
  /\ ObserveTimed

Spec == Init /\ [][Next]_vars

\* pointer drawing with the stroke controls
NextDraw ==
  /\ \/ PointerEvent
     \/ \E value \in StrokeColours : ColorPickerChange(value)
     \/ \E value \in WidthInputs : FontSizeChange(value)
     \/ \E d \in PendingDecodes : ResizeOnload(d)
  /\ Observe

SpecDraw == Init /\ [][NextDraw]_vars

\* drawing and resizing
NextResize ==
  /\ \/ PenEvent
     \/ ResizeEvent
  /\ Observe

SpecResize == Init /\ [][NextResize]_vars

\* drawing, clearing and the three style controls
NextBg ==
  /\ \/ PenEvent
     \/ \E value \in StrokeColours : ColorPickerChange(value)
     \/ \E value \in BgColours : CanvasColorChange(value)
     \/ \E d \in PendingDecodes : CanvasColorOnload(d)
     \/ \E value \in WidthInputs : FontSizeChange(value)
     \/ ClearButtonClick
     \/ \E d \in PendingDecodes : ResizeOnload(d)
  /\ Observe

SpecBg == Init /\ [][NextBg]_vars

\* drawing, clearing, saving and retrieving
NextStore ==
  /\ \/ PenEvent
     \/ ClearButtonClick
     \/ SaveButtonClick
     \/ RetrieveButtonClick
     \/ \E d \in PendingDecodes : RetrieveOnload(d)
     \/ \E d \in PendingDecodes : ResizeOnload(d)
  /\ Observe

SpecStore == Init /\ [][NextStore]_vars

\* drawing at one spot with the three style controls, one image load at a
\* time: the background and the device pixel ratio change, and the ratio's
\* timer expires, while no image is loading
NextStyle ==
  /\ \/ TapEvent
     \/ \E value \in StrokeColours : ColorPickerChange(value)
     \/ (pending = EmptyBag /\ \E value \in BgColours : CanvasColorChange(value))
     \/ \E d \in PendingDecodes : CanvasColorOnload(d)
     \/ \E value \in WidthInputs : FontSizeChange(value)
     \/ (pending = EmptyBag /\ DprEvent)
     \/ \E d \in PendingDecodes : ResizeOnload(d)
  /\ Observe

SpecStyle == Init /\ [][NextStyle]_vars

\* resize events and ratio changes as time passes; a timeout that has expired
\* runs before any later event is handled, once the image of the last run has
\* loaded
NextDebounce ==
  /\ \/ /\ ~Due(resizeTimer) /\ ~Due(dprTimer)
        /\ \/ \E box \in ContainerBoxes : WindowResize(box)
           \/ \E ratio \in Dprs : DprChange(ratio)
           \/ \E dt \in TimeSteps : Tick(dt)
     \/ (pending = EmptyBag /\ ResizeTimerFire)
     \/ (pending = EmptyBag /\ DprTimerFire)
     \/ \E d \in PendingDecodes : ResizeOnload(d)
  /\ ObserveTimed

SpecDebounce == Init /\ [][NextDebounce]_vars

\* resizeCanvasAndRestore run again and again, one image load at a time, for
\* many container boxes and device pixel ratios
NextSize ==
  /\ \/ \E box \in SizeBoxes : WindowResize(box)
     \/ \E ratio \in SizeDprs : DprChange(ratio)
     \/ \E dt \in {ResizeWait, DprWait} : Tick(dt)
     \/ (pending = EmptyBag /\ ResizeTimerFire)
     \/ (pending = EmptyBag /\ DprTimerFire)
     \/ \E d \in PendingDecodes : ResizeOnload(d)
  /\ Observe

SpecSize == Init /\ [][NextSize]_vars

(***************************************************************************)
(* The claims                                                              *)
(***************************************************************************)
Handlers(events) == [i \in 1 .. Len(events) |-> events[i].handler]

\* C1: a segment is stroked only by a pointer-move handled while isDrawing is
\* true; pointer-down, pointer-up, pointer-cancel and pointer-out leave the
\* raster alone; a pointer-move handled while idle changes neither the raster
\* nor the last point.
C1_Step ==
  /\ out'.seg # {} => out'.handler = "pointermove" /\ isDrawing
  /\ out'.handler \in {"pointerdown"} \cup StopTypes => raster' = raster
  /\ (out'.handler = "pointermove" /\ ~isDrawing) =>
       /\ raster' = raster
       /\ lastX' = lastX /\ lastY' = lastY
       /\ out'.seg = {}
C1_SegmentsOnlyWhileDrawing == [][C1_Step]_vars
\* an idle pointer-move was handled over a raster that holds a stroke
C1_Witness ==
  /\ out.handler = "pointermove" /\ ~isDrawing /\ out.seg = {}
  /\ raster # Blank

\* C2: a pointer-down strokes nothing and makes its position the last point;
\* every pointer-move of the stroke draws exactly one segment, from the last
\* point (the end of the previous segment, or the down position) to its own
\* position, with the stroke colour and line width the style state holds at
\* that move, and makes its position the last point; the end of the stroke
\* draws nothing.
C2_Step ==
  /\ out'.handler = "pointerdown" =>
       /\ out'.seg = {}
       /\ <<lastX', lastY'>> = out'.at
  /\ (out'.handler = "pointermove" /\ isDrawing) =>
       /\ out'.seg = {[x0 |-> lastX, y0 |-> lastY,
                       x1 |-> out'.at[1], y1 |-> out'.at[2],
                       strokeStyle |-> currentStroke, lineWidth |-> currentLineWidth]}
       /\ <<lastX', lastY'>> = out'.at
       /\ \A c \in Cells : raster'[c] \in {raster[c], currentStroke}
       /\ LET end == << CellX(out'.at[1], ctx.scale, canvasWidth),
                        CellY(out'.at[2], ctx.scale, canvasHeight) >>
          IN end \in Cells => raster'[end] = currentStroke
  /\ out'.handler \in StopTypes =>
       /\ out'.seg = {}
       /\ lastX' = lastX /\ lastY' = lastY
C2_ConnectedStyledSegments == [][C2_Step]_vars
\* a segment between two different points was drawn with a picked colour and width
C2_Witness ==
  /\ out.handler = "pointermove"
  /\ \E seg \in out.seg :
       /\ <<seg.x0, seg.y0>> # <<seg.x1, seg.y1>>
       /\ seg.strokeStyle = "#0000ff" /\ seg.lineWidth = 10
  /\ \E c \in Cells : raster[c] = "#0000ff"

\* C9: a pointer-down immediately followed by a pointer-up leaves the raster
\* as it was before the pointer-down, and the session idle.
C9_DownUpDrawsNothing ==
  Handlers(run.events) = <<"pointerdown", "pointerup">> =>
    raster = run.base /\ ~isDrawing
\* a press and release with no move, over a raster that holds a stroke
C9_Witness ==
  /\ Handlers(run.events) = <<"pointerdown", "pointerup">>
  /\ raster # Blank

\* C3: once the image of a background change has loaded, straight after the
\* change, every sample that held a stroke still holds it and every other
\* sample shows the new background colour.
C3_NewBackgroundUnderStrokes ==
  ( /\ Handlers(run.events) = <<"canvasColor", "canvasColorOnload">>
    /\ run.events[2].decode = run.events[1].decode )
  => \A c \in Cells :
       IF run.base[c] \in StrokeColours
       THEN raster[c] = run.base[c]
       ELSE raster[c] = currentBg

\* C4: a resizeCanvasAndRestore followed at once by the onload of the image
\* it started leaves the raster with the content it had before the call.
C4_ResizeKeepsContent ==
  ( /\ Handlers(run.events) = <<"resizeCanvasAndRestore", "resizeOnload">>
    /\ run.events[2].decode = run.events[1].decode )
  => raster = run.base
\* a resize to another size restored a raster that holds a stroke
C4_Witness ==
  /\ Handlers(run.events) = <<"resizeCanvasAndRestore", "resizeOnload">>
  /\ run.events[2].decode = run.events[1].decode
  /\ run.geom # Geom
  /\ raster # Blank

\* the images started, and the images loaded, by the handlers of a record
RECURSIVE DecodesOf(_, _)
DecodesOf(events, handler) ==
  IF events = <<>> THEN EmptyBag
  ELSE DecodesOf(Tail(events), handler)
         (+) (IF Head(events).handler = handler
              THEN SetToBag(Head(events).decode) ELSE EmptyBag)

\* C5: after a series of resizeCanvasAndRestore calls that change neither the
\* sizes nor the transform, and once every image they started has loaded, the
\* raster is the raster before the first call.
C5_ResizeIdempotent ==
  ( /\ run.events # <<>>
    /\ run.events[1].handler = "resizeCanvasAndRestore"
    /\ DecodesOf(run.events, "resizeCanvasAndRestore") = DecodesOf(run.events, "resizeOnload")
    /\ run.geom = Geom )
  => raster = run.base

\* C6: save, then retrieve, then the onload of the retrieved image, with no
\* other handler in between, leave the raster as it was at the save.
C6_SaveRetrieveRoundTrip ==
  ( /\ Handlers(run.events) = <<"saveButton", "retrieveButton", "retrieveOnload">>
    /\ run.events[3].decode = run.events[2].decode )
  => raster = run.base
\* the round trip ran on a raster that holds a stroke and an empty sample
C6_Witness ==
  /\ Handlers(run.events) = <<"saveButton", "retrieveButton", "retrieveOnload">>
  /\ run.events[3].decode = run.events[2].decode
  /\ \E c \in Cells : raster[c] \in StrokeColours
  /\ \E c \in Cells : raster[c] = Transparent

\* C7: retrieve with nothing stored raises the notice, starts no image load
\* and changes neither the raster, the style state, the context nor the storage.
C7_Step ==
  (out'.handler = "retrieveButton" /\ storage = {}) =>
    /\ out'.alert = {NoSavedNotice}
    /\ out'.decode = {}
    /\ pending' = pending
    /\ raster' = raster
    /\ <<currentStroke', currentBg', currentLineWidth'>>
         = <<currentStroke, currentBg, currentLineWidth>>
    /\ ctx' = ctx
    /\ storage' = storage
C7_RetrieveWithoutSave == [][C7_Step]_vars
\* the notice was raised over a raster that holds a stroke
C7_Witness ==
  /\ out.handler = "retrieveButton" /\ out.alert # {}
  /\ storage = {}
  /\ raster # Blank

\* C8: after clear() every sample of the raster is the current background colour.
C8_ClearFillsBackground ==
  out.handler = "clearButton" => \A c \in Cells : raster[c] = currentBg
\* a clear after the stroke colour, the background and the width were changed
C8_Witness ==
  /\ out.handler = "clearButton"
  /\ currentBg = "#ff0000" /\ currentStroke = "#0000ff" /\ currentLineWidth = 10

\* C10: save stores the encoding of the raster as it is at the call, under
\* the one key, and downloads the same string as my-canvas.png; no other
\* handler changes what is stored.
C10_Step ==
  IF out'.handler = "saveButton"
  THEN /\ storage' = {[w |-> canvasWidth, h |-> canvasHeight, px |-> raster]}
       /\ out'.link = {[download |-> "my-canvas.png", href |-> x] : x \in storage'}
  ELSE storage' = storage
C10_StoredIsLastSave == [][C10_Step]_vars
\* a snapshot with a stroke is still stored after the raster was cleared
C10_Witness ==
  /\ out.handler = "clearButton"
  /\ \E x \in storage : x.px # raster /\ \E c \in Cells : x.px[c] \in StrokeColours

\* C11 (as stated): a line-width input that is not a number sets the style
\* state's width and the context's line width to the default 5; an input that
\* is a number sets both to that number; the handler lets no error escape.
C11_OriginalStep ==
  out'.handler = "fontSize" =>
    /\ out'.error = {}
    /\ \A value \in out'.value :
         LET n == Number(value)
             width == IF n.nan THEN DefaultLineWidth ELSE n.val
         IN currentLineWidth' = width /\ ctx'.lineWidth = width
C11_NumberUsedAsWidth == [][C11_OriginalStep]_vars

\* C11 (amended): a line-width input that is not a number, or is the number
\* zero, sets the style state's width and the context's line width to the
\* default 5; an input that is a positive number sets both to that number;
\* the handler lets no error escape and changes nothing else of the style
\* state or the raster.
C11_Step ==
  out'.handler = "fontSize" =>
    /\ out'.error = {}
    /\ \A value \in out'.value :
         LET n == Number(value)
             width == IF n.nan \/ n.val = 0 THEN DefaultLineWidth ELSE n.val
         IN currentLineWidth' = width /\ ctx'.lineWidth = width
    /\ out'.value # {}
    /\ <<currentStroke', currentBg', raster'>> = <<currentStroke, currentBg, raster>>
C11_WidthOrDefault == [][C11_Step]_vars
\* an input that is not a number set the width to 5 during a stroke
C11_Witness ==
  /\ out.handler = "fontSize" /\ out.value = {<<"a", "b">>}
  /\ currentLineWidth = DefaultLineWidth /\ ctx.lineWidth = DefaultLineWidth
  /\ isDrawing /\ raster # Blank

\* C12: once the image started by the startup call of resizeCanvasAndRestore
\* has loaded, every sample of the raster is the current background colour.
C12_StartupFillsBackground ==
  ( /\ out.handler = "resizeOnload"
    /\ \E d \in out.decode : d.img = StartupSnapshot )
  => \A c \in Cells : raster[c] = currentBg

\* C13: when the image started by one resizeCanvasAndRestore call loads after
\* a newer call has started, its onload leaves the raster as it is.
C13_Step ==
  ( /\ Handlers(run.events) = <<"resizeCanvasAndRestore", "resizeCanvasAndRestore">>
    /\ out'.handler = "resizeOnload"
    /\ out'.decode = run.events[1].decode
    /\ out'.decode # run.events[2].decode )
  => raster' = raster
C13_StaleDecodeDiscarded == [][C13_Step]_vars

\* C14: the style state starts as #000000, #ffffff and 5, is defined in every
\* state and changes only in the handlers of the three style controls; at
\* every pointer-move that draws, the context's stroke colour and line width
\* are the style state's, and the segment is stroked with them, however many
\* resizeCanvasAndRestore calls ran before.
C14_Defined ==
  /\ currentStroke \in StrokeColours
  /\ currentBg \in BgColours
  /\ currentLineWidth \in Nat \ {0}
C14_Step ==
  /\ C14_Defined'
  /\ <<currentStroke', currentBg', currentLineWidth'>>
         # <<currentStroke, currentBg, currentLineWidth>>
       => out'.handler \in {"colorPicker", "canvasColor", "fontSize"}
  /\ (out'.handler = "pointermove" /\ isDrawing) =>
       /\ ctx.strokeStyle = currentStroke /\ ctx.lineWidth = currentLineWidth
       /\ \A seg \in out'.seg :
            seg.strokeStyle = currentStroke /\ seg.lineWidth = currentLineWidth
C14_StyleDefinedAndApplied ==
  /\ <<currentStroke, currentBg, currentLineWidth>> = <<"#000000", "#ffffff", 5>>
  /\ C14_Defined
  /\ [][C14_Step]_vars
\* a segment drawn with a picked colour and width after resizeCanvasAndRestore
\* ran again for another device pixel ratio
C14_Witness ==
  /\ out.handler = "pointermove"
  /\ \E seg \in out.seg : seg.strokeStyle = "#0000ff" /\ seg.lineWidth = 10
  /\ ctx.scale # mqResolution
  /\ currentBg = "#ff0000"

\* C15: whenever the stroke session is idle, the canvas holds no pointer
\* capture that a pointer-down acquired.
C15_IdleHoldsNoCapture == ~isDrawing => captured = {}

\* C16: each debounced listener has at most one timeout pending; a resize
\* event replaces the pending timeout by one of the full wait; the timeout
\* runs resizeCanvasAndRestore only when the wait has passed since the last
\* resize event; a burst of resize events with gaps shorter than the wait is
\* followed by exactly one run: none while the burst lasts, one still due
\* until it has run, and one has run when the next burst begins.
C16_Pending ==
  /\ Len(resizeTimer) <= 1 /\ Len(dprTimer) <= 1
  /\ burst.runs <= 1
  /\ (burst.events > 0 /\ burst.runs = 0) => resizeTimer # <<>>
  /\ (burst.events > 0 /\ burst.runs = 1) => resizeTimer = <<>>
C16_Step ==
  /\ out'.handler = "resize" => resizeTimer' = <<ResizeWait>>
  /\ ResizeTimerRan => burst.events > 0 /\ burst.elapsed >= ResizeWait
  /\ (out'.handler = "resize" /\ burst.events > 0 /\ burst.elapsed >= ResizeWait)
       => burst.runs = 1
C17_Sizes ==
  /\ 240 <= styleWidth /\ styleWidth <= 800
  /\ 1600 * styleHeight - 800 <= 700 * styleWidth
  /\ 700 * styleWidth < 1600 * styleHeight + 800
  /\ canvasWidth = styleWidth * ctx.scale
  /\ canvasHeight = styleHeight * ctx.scale
C17_Step ==
  out'.handler = "resizeCanvasAndRestore" =>
    LET available == container[1] - container[2]
    IN /\ styleWidth' = (IF available < 240 THEN 240
                          ELSE IF available > 800 THEN 800 ELSE available)
       /\ ctx'.scale = dpr
C17_SizeAndTransform == []C17_Sizes /\ [][C17_Step]_vars
\* a call for a half-pixel height at ratio 3, after calls at another ratio
C17_Witness ==
  /\ out.handler = "resizeCanvasAndRestore"
  /\ styleWidth = 248 /\ styleHeight = 109
  /\ canvasWidth = 744 /\ canvasHeight = 327
  /\ ctx.scale = 3 /\ mqResolution # 3

\* C18: a pointer-down whose setPointerCapture throws still starts the stroke
\* at its position, and a pointer-up, pointer-cancel or pointer-out whose
\* releasePointerCapture throws still ends it; neither lets the exception
\* escape; the pointer-move that follows such a pointer-down draws its segment
\* from the down position, and the pointer-down that follows such a stop
\* starts a stroke.
C18_Step ==
  /\ out'.error = {}
  /\ (out'.handler = "pointerdown" /\ out'.threw # {}) =>
       isDrawing' /\ <<lastX', lastY'>> = out'.at
  /\ (out'.handler \in StopTypes /\ out'.threw # {}) => ~isDrawing'
  /\ (out.threw # {} /\ out.handler = "pointerdown" /\ out'.handler = "pointermove") =>
       \E seg \in out'.seg :
         <<seg.x0, seg.y0>> = out.at /\ <<seg.x1, seg.y1>> = out'.at
  /\ (out.threw # {} /\ out.handler \in StopTypes) =>
       /\ out'.handler = "pointermove" => out'.seg = {} /\ raster' = raster
       /\ out'.handler = "pointerdown" => isDrawing'
C18_CaptureFailureSwallowed == [][C18_Step]_vars
\* a press ended with a release that threw, over a raster that holds a stroke
C18_Witness ==
  /\ out.handler \in StopTypes /\ out.threw = {"releasePointerCapture"}
  /\ ~isDrawing /\ captured = {}
  /\ raster # Blank

\* C19: when the image of a background change, of resizeCanvasAndRestore or of
\* retrieve loads right after a pointer-move drew a segment (the load was
\* started before that move), the samples of the segment are kept.
C19_Step ==
  ( /\ out.handler = "pointermove" /\ out.seg # {}
    /\ out'.handler \in {"canvasColorOnload", "resizeOnload", "retrieveOnload"} )
  => \A seg \in out.seg :
       LET a == << CellX(seg.x0, ctx.scale, canvasWidth), CellY(seg.y0, ctx.scale, canvasHeight) >>
           b == << CellX(seg.x1, ctx.scale, canvasWidth), CellY(seg.y1, ctx.scale, canvasHeight) >>
       IN \A c \in Cells :
            (OnSegment(c, a, b) /\ raster[c] = seg.strokeStyle) => raster'[c] = raster[c]
C19_LoadKeepsNewSegments == [][C19_Step]_vars

\* C20: every fillRect of clear(), of the background change's onload and of
\* resizeCanvasAndRestore uses the style state's background colour, whatever
\* fill style the context held: after clear() every sample is that colour,
\* and the onload leaves in each sample that colour, a colour of the snapshot
\* it redraws, or what the sample held; a stroke-colour change sets the
\* context's fill style to the stroke colour and leaves the raster, the
\* background colour and the line width alone.
C20_Step ==
  /\ out'.fill \subseteq {currentBg}
  /\ out'.handler \in {"clearButton", "canvasColorOnload"} => out'.fill # {}
  /\ out'.handler = "clearButton" => \A c \in Cells : raster'[c] = currentBg
  /\ out'.handler = "canvasColorOnload" =>
       \A c \in Cells, d \in out'.decode :
         raster'[c] \in {currentBg, raster[c]} \cup {d.img.px[x] : x \in Cells}
  /\ out'.handler = "colorPicker" =>
       /\ ctx'.fillStyle = currentStroke' /\ out'.value = {currentStroke'}
       /\ raster' = raster
       /\ currentBg' = currentBg /\ currentLineWidth' = currentLineWidth
C20_FillsUseBackground == [][C20_Step]_vars
\* a background change filled under a stroke while the context's fill style
\* was the picked stroke colour
C20_Witness ==
  /\ out.handler = "canvasColorOnload" /\ out.fill = {"#ff0000"}
  /\ ctx.fillStyle = "#0000ff"
  /\ \E c \in Cells : raster[c] = "#ff0000"
  /\ \E c \in Cells : raster[c] \in StrokeColours

====
